---- MODULE Spec2Model ----
(***************************************************************************)
(* The radix-tree KV cache of sglang/srt/mem_cache/radix_cache.py:         *)
(* TreeNode objects on a heap of node ids, the RadixCache operations       *)
(* (insert, match_prefix, inc/dec_lock_ref, evict, evict1, the two         *)
(* cache_*_req entry points, reset), the token_to_kv_pool as a free set of *)
(* slot indices and the requests that a scheduler runs against the cache.  *)
(* time.time() is a logical clock: every call returns the next tick.       *)
(***************************************************************************)
EXTENDS Integers, Sequences, FiniteSets, TLC

\* ---------------------------------------------------------------- bounds
NumTokens == 2
MaxKeyLen == 2
MaxClock == 7
MaxReqClock == 10
MaxTreeClock == 10
MaxMixClock == 11
NumSlots == 4
NumReqs == 2
MaxEvict == 3
MaxReserved == 1
MaxPins == 2

Tokens == 1..NumTokens
Slots == 1..NumSlots
ReqIds == 1..NumReqs
EvictAmounts == 0..MaxEvict
Keys == UNION {[1..n -> Tokens] : n \in 0..MaxKeyLen}

\* None, as the parent of the root and the last_node of an idle request
NoNode == -1

VARIABLES
    nodes,            \* the TreeNode objects: node id -> its fields
    root_node,        \* RadixCache.root_node
    evictable_size_,  \* RadixCache.evictable_size_
    disable,          \* RadixCache.disable
    clock,            \* the next value time.time() returns
    reqs,             \* the Req objects with their req_to_token rows
    pool_free,        \* token_to_kv_pool: the slot indices that are free
    double_free,      \* a slot index was released while it was free
    last              \* what the last operation was given and returned

vars == <<nodes, root_node, evictable_size_, disable, clock, reqs, pool_free,
          double_free, last>>

\* ------------------------------------------------------------- sequences
Min(a, b) == IF a < b THEN a ELSE b

\* Python's s[a:b] for 0 <= a, 0 <= b
Slice(s, a, b) == SubSeq(s, Min(a, Len(s)) + 1, Min(b, Len(s)))

\* Python's s[a:]
Drop(s, a) == Slice(s, a, Len(s))

Range(s) == {s[i] : i \in 1..Len(s)}

RECURSIVE Flatten(_)
Flatten(ss) == IF ss = <<>> THEN <<>> ELSE Head(ss) \o Flatten(Tail(ss))

\* how often e occurs in s
Count(s, e) == Cardinality({i \in 1..Len(s) : s[i] = e})

\* ------------------------------------------------- the children dictionary
\* An insertion-ordered dict: a sequence of entries [k |-> token, n |-> node].
HasKey(d, k) == \E i \in 1..Len(d) : d[i].k = k

Get(d, k) == d[CHOOSE i \in 1..Len(d) : d[i].k = k].n

Put(d, k, n) ==
    IF HasKey(d, k)
    THEN [i \in 1..Len(d) |-> IF d[i].k = k THEN [k |-> k, n |-> n] ELSE d[i]]
    ELSE Append(d, [k |-> k, n |-> n])

Del(d, k) == SelectSeq(d, LAMBDA e : e.k # k)

Values(d) == [i \in 1..Len(d) |-> d[i].n]

\* ---------------------------------------------------------------- TreeNode
\* TreeNode.__init__ at time t
TreeNode(t) ==
    [key |-> <<>>, value |-> <<>>, parent |-> NoNode, children |-> <<>>,
     lock_ref |-> 0, last_access_time |-> t]

\* the identity of a newly allocated object: the first id no live object has
FreshId(ns) ==
    CHOOSE i \in 0..Cardinality(DOMAIN ns) :
        i \notin DOMAIN ns /\ \A j \in 0..(i - 1) : j \in DOMAIN ns

\* TreeNode.__lt__
NodeLt(ns, a, b) == ns[a].last_access_time < ns[b].last_access_time

\* _key_match without the break at the first difference
_key_match_no_break(key0, key1) == Min(Len(key0), Len(key1))

\* _key_match stopping one token early on a match of two tokens or more
_key_match_one_less(key0, key1) ==
    LET m == CHOOSE n \in 0..Min(Len(key0), Len(key1)) :
                 /\ \A i \in 1..n : key0[i] = key1[i]
                 /\ n = Min(Len(key0), Len(key1)) \/ key0[n + 1] # key1[n + 1]
    IN IF m > 1 THEN m - 1 ELSE m

RECURSIVE _key_match(_, _)
_key_match(key0, key1) ==
    IF key0 = <<>> \/ key1 = <<>> THEN 0
    ELSE IF Head(key0) # Head(key1) THEN 0
    ELSE 1 + _key_match(Tail(key0), Tail(key1))

\* The cache's mutable memory handed through the helpers:
\*   h = [nodes, ev (evictable_size_), clock]
\* node.last_access_time = time.time()
Touch(h, node) ==
    [h EXCEPT !.nodes[node].last_access_time = h.clock, !.clock = h.clock + 1]

\* ------------------------------------------------------------ _split_node
\* _split_node giving the new node the whole value of the child
_split_node_whole_value(h, key, child, split_len) ==
    LET new_node == FreshId(h.nodes)
        c == h.nodes[child]
        nn == [TreeNode(h.clock) EXCEPT
                  !.children = <<[k |-> key[split_len + 1], n |-> child]>>,
                  !.parent = c.parent,
                  !.lock_ref = c.lock_ref,
                  !.key = Slice(c.key, 0, split_len),
                  !.value = c.value]
        c2 == [c EXCEPT !.parent = new_node,
                        !.key = Drop(c.key, split_len),
                        !.value = Drop(c.value, split_len)]
        ns1 == [i \in DOMAIN h.nodes \cup {new_node} |->
                   IF i = new_node THEN nn
                   ELSE IF i = child THEN c2
                   ELSE h.nodes[i]]
        ns2 == [ns1 EXCEPT ![nn.parent].children =
                   Put(@, Slice(key, 0, split_len)[1], new_node)]
    IN [h |-> [nodes |-> ns2, ev |-> h.ev, clock |-> h.clock + 1],
        node |-> new_node]

\* _split_node leaving the new node unpinned
_split_node_unpinned(h, key, child, split_len) ==
    LET new_node == FreshId(h.nodes)
        c == h.nodes[child]
        nn == [TreeNode(h.clock) EXCEPT
                  !.children = <<[k |-> key[split_len + 1], n |-> child]>>,
                  !.parent = c.parent,
                  !.key = Slice(c.key, 0, split_len),
                  !.value = Slice(c.value, 0, split_len)]
        c2 == [c EXCEPT !.parent = new_node,
                        !.key = Drop(c.key, split_len),
                        !.value = Drop(c.value, split_len)]
        ns1 == [i \in DOMAIN h.nodes \cup {new_node} |->
                   IF i = new_node THEN nn
                   ELSE IF i = child THEN c2
                   ELSE h.nodes[i]]
        ns2 == [ns1 EXCEPT ![nn.parent].children =
                   Put(@, Slice(key, 0, split_len)[1], new_node)]
    IN [h |-> [nodes |-> ns2, ev |-> h.ev, clock |-> h.clock + 1],
        node |-> new_node]

_split_node(h, key, child, split_len) ==
    LET new_node == FreshId(h.nodes)
        c == h.nodes[child]
        nn == [TreeNode(h.clock) EXCEPT
                  !.children = <<[k |-> key[split_len + 1], n |-> child]>>,
                  !.parent = c.parent,
                  !.lock_ref = c.lock_ref,
                  !.key = Slice(c.key, 0, split_len),
                  !.value = Slice(c.value, 0, split_len)]
        c2 == [c EXCEPT !.parent = new_node,
                        !.key = Drop(c.key, split_len),
                        !.value = Drop(c.value, split_len)]
        ns1 == [i \in DOMAIN h.nodes \cup {new_node} |->
                   IF i = new_node THEN nn
                   ELSE IF i = child THEN c2
                   ELSE h.nodes[i]]
        ns2 == [ns1 EXCEPT ![nn.parent].children =
                   Put(@, Slice(key, 0, split_len)[1], new_node)]
    IN [h |-> [nodes |-> ns2, ev |-> h.ev, clock |-> h.clock + 1],
        node |-> new_node]

\* --------------------------------------------------- _match_prefix_helper
\* _match_prefix_helper stopping below the first child it matches in full
_match_prefix_helper_one_level(h0, node, key, value, last_node) ==
    LET h == Touch(h0, node) IN
    IF Len(key) = 0 THEN [h |-> h, value |-> value, last_node |-> last_node]
    ELSE IF HasKey(h.nodes[node].children, key[1])
    THEN LET child == Get(h.nodes[node].children, key[1])
             prefix_len == _key_match(h.nodes[child].key, key)
         IN IF prefix_len < Len(h.nodes[child].key)
            THEN LET s == _split_node(h, h.nodes[child].key, child, prefix_len)
                 IN [h |-> s.h,
                     value |-> value \o s.h.nodes[s.node].value,
                     last_node |-> s.node]
            ELSE [h |-> h, value |-> value \o h.nodes[child].value,
                  last_node |-> child]
    ELSE [h |-> h, value |-> value, last_node |-> last_node]

RECURSIVE _match_prefix_helper(_, _, _, _, _)
_match_prefix_helper(h0, node, key, value, last_node) ==
    LET h == Touch(h0, node) IN
    IF Len(key) = 0 THEN [h |-> h, value |-> value, last_node |-> last_node]
    ELSE IF HasKey(h.nodes[node].children, key[1])
    THEN LET child == Get(h.nodes[node].children, key[1])
             prefix_len == _key_match(h.nodes[child].key, key)
         IN IF prefix_len < Len(h.nodes[child].key)
            THEN LET s == _split_node(h, h.nodes[child].key, child, prefix_len)
                 IN [h |-> s.h,
                     value |-> value \o s.h.nodes[s.node].value,
                     last_node |-> s.node]
            ELSE _match_prefix_helper(h, child, Drop(key, prefix_len),
                                      value \o h.nodes[child].value, child)
    ELSE [h |-> h, value |-> value, last_node |-> last_node]

\* match_prefix pinning the node it returns
match_prefix_pins(h, root, key) ==
    LET m == _match_prefix_helper(h, root, key, <<>>, root)
    IN IF m.last_node = root THEN m
       ELSE [m EXCEPT !.h.nodes[m.last_node].lock_ref = @ + 1]

\* RadixCache.match_prefix, cache enabled
match_prefix(h, root, key) == _match_prefix_helper(h, root, key, <<>>, root)

\* --------------------------------------------------------- _insert_helper
\* the new leaf entered in the children under the last token of its key
NewLeaf_keyed_by_last(h, node, key, value) ==
    LET new_node == FreshId(h.nodes)
        nn == [TreeNode(h.clock) EXCEPT
                  !.parent = node, !.key = key, !.value = value]
        ns1 == [i \in DOMAIN h.nodes \cup {new_node} |->
                   IF i = new_node THEN nn ELSE h.nodes[i]]
        ns2 == [ns1 EXCEPT ![node].children = Put(@, key[Len(key)], new_node)]
    IN [nodes |-> ns2, ev |-> h.ev + Len(value), clock |-> h.clock + 1]

\* the new leaf of lines 368-375
NewLeaf(h, node, key, value) ==
    LET new_node == FreshId(h.nodes)
        nn == [TreeNode(h.clock) EXCEPT
                  !.parent = node, !.key = key, !.value = value]
        ns1 == [i \in DOMAIN h.nodes \cup {new_node} |->
                   IF i = new_node THEN nn ELSE h.nodes[i]]
        ns2 == [ns1 EXCEPT ![node].children = Put(@, key[1], new_node)]
    IN [nodes |-> ns2, ev |-> h.ev + Len(value), clock |-> h.clock + 1]

\* _insert_helper storing the new slots over those of a key it finds stored
RECURSIVE _insert_helper_overwrites(_, _, _, _)
_insert_helper_overwrites(h0, node, key, value) ==
    LET h == Touch(h0, node) IN
    IF Len(key) = 0 THEN [h |-> h, ret |-> 0]
    ELSE IF HasKey(h.nodes[node].children, key[1])
    THEN LET child == Get(h.nodes[node].children, key[1])
             prefix_len == _key_match(h.nodes[child].key, key)
         IN IF prefix_len = Len(h.nodes[child].key)
            THEN IF prefix_len = Len(key)
                 THEN [h |-> [h EXCEPT !.nodes[child].value = value],
                       ret |-> prefix_len]
                 ELSE LET r == _insert_helper_overwrites(
                                   h, child, Drop(key, prefix_len),
                                   Drop(value, prefix_len))
                      IN [h |-> r.h, ret |-> prefix_len + r.ret]
            ELSE LET s == _split_node(h, h.nodes[child].key, child, prefix_len)
                     r == _insert_helper_overwrites(
                              s.h, s.node, Drop(key, prefix_len),
                              Drop(value, prefix_len))
                 IN [h |-> r.h, ret |-> prefix_len + r.ret]
    ELSE [h |-> NewLeaf(h, node, key, value), ret |-> 0]

RECURSIVE _insert_helper(_, _, _, _)
_insert_helper(h0, node, key, value) ==
    LET h == Touch(h0, node) IN
    IF Len(key) = 0 THEN [h |-> h, ret |-> 0]
    ELSE IF HasKey(h.nodes[node].children, key[1])
    THEN LET child == Get(h.nodes[node].children, key[1])
             prefix_len == _key_match(h.nodes[child].key, key)
         IN IF prefix_len = Len(h.nodes[child].key)
            THEN IF prefix_len = Len(key)
                 THEN [h |-> h, ret |-> prefix_len]
                 ELSE LET r == _insert_helper(h, child, Drop(key, prefix_len),
                                              Drop(value, prefix_len))
                      IN [h |-> r.h, ret |-> prefix_len + r.ret]
            ELSE LET s == _split_node(h, h.nodes[child].key, child, prefix_len)
                     r == _insert_helper(s.h, s.node, Drop(key, prefix_len),
                                         Drop(value, prefix_len))
                 IN [h |-> r.h, ret |-> prefix_len + r.ret]
    ELSE [h |-> NewLeaf(h, node, key, value), ret |-> 0]

\* RadixCache.insert, cache enabled
insert(h, root, key, value) == _insert_helper(h, root, key, value)

\* ------------------------------------------------ inc_lock_ref, dec_lock_ref
\* inc_lock_ref pinning the node alone, not the nodes above it
inc_lock_ref_node_only(h, root, node) ==
    IF node = root THEN h
    ELSE LET nd == h.nodes[node]
         IN [h EXCEPT
                !.ev = IF nd.lock_ref = 0 THEN h.ev - Len(nd.value) ELSE h.ev,
                !.nodes[node].lock_ref = nd.lock_ref + 1]

RECURSIVE inc_lock_ref(_, _, _)
inc_lock_ref(h, root, node) ==
    IF node = root THEN h
    ELSE LET nd == h.nodes[node]
             h1 == [h EXCEPT
                       !.ev = IF nd.lock_ref = 0 THEN h.ev - Len(nd.value)
                              ELSE h.ev,
                       !.nodes[node].lock_ref = nd.lock_ref + 1]
         IN inc_lock_ref(h1, root, nd.parent)

\* dec_lock_ref testing for the last pin after the decrement
RECURSIVE dec_lock_ref_tests_zero(_, _, _)
dec_lock_ref_tests_zero(h, root, node) ==
    IF node = root THEN h
    ELSE LET nd == h.nodes[node]
             h1 == [h EXCEPT
                       !.ev = IF nd.lock_ref = 0 THEN h.ev + Len(nd.value)
                              ELSE h.ev,
                       !.nodes[node].lock_ref = nd.lock_ref - 1]
         IN dec_lock_ref_tests_zero(h1, root, nd.parent)

RECURSIVE dec_lock_ref(_, _, _)
dec_lock_ref(h, root, node) ==
    IF node = root THEN h
    ELSE LET nd == h.nodes[node]
             h1 == [h EXCEPT
                       !.ev = IF nd.lock_ref = 1 THEN h.ev + Len(nd.value)
                              ELSE h.ev,
                       !.nodes[node].lock_ref = nd.lock_ref - 1]
         IN dec_lock_ref(h1, root, nd.parent)

\* ----------------------------------------------------------------- heapq
\* The heap is a list of node ids ordered by TreeNode.__lt__; position p of
\* the Python list is heap[p + 1].
RECURSIVE SiftDownLoop(_, _, _, _, _)
SiftDownLoop(ns, heap, startpos, pos, newitem) ==
    IF pos > startpos
    THEN LET parentpos == (pos - 1) \div 2
             parent == heap[parentpos + 1]
         IN IF NodeLt(ns, newitem, parent)
            THEN SiftDownLoop(ns, [heap EXCEPT ![pos + 1] = parent],
                              startpos, parentpos, newitem)
            ELSE [heap EXCEPT ![pos + 1] = newitem]
    ELSE [heap EXCEPT ![pos + 1] = newitem]

_siftdown(ns, heap, startpos, pos) ==
    SiftDownLoop(ns, heap, startpos, pos, heap[pos + 1])

RECURSIVE SiftUpLoop(_, _, _, _, _, _)
SiftUpLoop(ns, heap, startpos, pos, childpos, newitem) ==
    IF childpos < Len(heap)
    THEN LET rightpos == childpos + 1
             c == IF rightpos < Len(heap)
                     /\ ~NodeLt(ns, heap[childpos + 1], heap[rightpos + 1])
                  THEN rightpos ELSE childpos
         IN SiftUpLoop(ns, [heap EXCEPT ![pos + 1] = heap[c + 1]],
                       startpos, c, 2 * c + 1, newitem)
    ELSE _siftdown(ns, [heap EXCEPT ![pos + 1] = newitem], startpos, pos)

_siftup(ns, heap, pos) ==
    SiftUpLoop(ns, heap, pos, pos, 2 * pos + 1, heap[pos + 1])

RECURSIVE HeapifyFrom(_, _, _)
HeapifyFrom(ns, x, i) ==
    IF i < 0 THEN x ELSE HeapifyFrom(ns, _siftup(ns, x, i), i - 1)

heapify(ns, x) == HeapifyFrom(ns, x, (Len(x) \div 2) - 1)

heappop(ns, heap) ==
    LET lastelt == heap[Len(heap)]
        rest == SubSeq(heap, 1, Len(heap) - 1)
    IN IF rest # <<>>
       THEN [item |-> rest[1],
             heap |-> _siftup(ns, [rest EXCEPT ![1] = lastelt], 0)]
       ELSE [item |-> lastelt, heap |-> rest]

heappush(ns, heap, item) == _siftdown(ns, Append(heap, item), 0, Len(heap))

\* --------------------------------------------------------- _collect_leaves
RECURSIVE CollectLoop(_, _, _)
CollectLoop(ns, stack, ret_list) ==
    IF stack = <<>> THEN ret_list
    ELSE LET cur_node == stack[Len(stack)]
             rest == SubSeq(stack, 1, Len(stack) - 1)
         IN IF Len(ns[cur_node].children) = 0
            THEN CollectLoop(ns, rest, Append(ret_list, cur_node))
            ELSE CollectLoop(ns, rest \o Values(ns[cur_node].children), ret_list)

_collect_leaves(ns, root) == CollectLoop(ns, <<root>>, <<>>)

\* ------------------------------------------------------------ _delete_leaf
\* _delete_leaf without the update of evictable_size_
_delete_leaf_keeps_size(h, node) ==
    LET p == h.nodes[node].parent
        d == h.nodes[p].children
        hit == {i \in 1..Len(d) : d[i].n = node}
        at == IF hit = {} THEN Len(d)
              ELSE CHOOSE i \in hit : \A j \in hit : i <= j
    IN [h EXCEPT !.nodes[p].children = Del(d, d[at].k)]

_delete_leaf(h, node) ==
    LET p == h.nodes[node].parent
        d == h.nodes[p].children
        hit == {i \in 1..Len(d) : d[i].n = node}
        at == IF hit = {} THEN Len(d)
              ELSE CHOOSE i \in hit : \A j \in hit : i <= j
    IN [h EXCEPT !.nodes[p].children = Del(d, d[at].k),
                 !.ev = h.ev - Len(h.nodes[node].key)]

\* ------------------------------------------------------------ the tree
\* the nodes reachable from node through the children dictionaries
RECURSIVE Subtree(_, _)
Subtree(ns, node) ==
    {node} \cup UNION {Subtree(ns, ns[node].children[i].n) :
                          i \in 1..Len(ns[node].children)}

\* the nodes above node, up to the root
RECURSIVE Ancestors(_, _)
Ancestors(ns, node) ==
    IF ns[node].parent = NoNode THEN {}
    ELSE {ns[node].parent} \cup Ancestors(ns, ns[node].parent)

\* the objects still referenced once evict returns: deleted leaves are gone
Collected(h, root) == [h EXCEPT !.nodes = [i \in Subtree(h.nodes, root) |-> h.nodes[i]]]

\* what the eviction loop sees when it deletes x: the unpinned leaves
UnpinnedLeaves(ns, root) ==
    {[n |-> i, t |-> ns[i].last_access_time] :
        i \in {j \in Subtree(ns, root) \ {root} :
                  Len(ns[j].children) = 0 /\ ns[j].lock_ref = 0}}

Step(ns, root, x) ==
    [x |-> x, t |-> ns[x].last_access_time, lock_ref |-> ns[x].lock_ref,
     nchildren |-> Len(ns[x].children), value |-> ns[x].value,
     leaves |-> UnpinnedLeaves(ns, root)]

\* the lock test off by one
IsLocked_above_one(nd) == nd.lock_ref > 1

\* whether the loop leaves x alone
IsLocked(nd) == nd.lock_ref > 0

\* the parent is never pushed
PushIfLeaf_never(ns, heap, parent) == heap

\* lines 199-200: the parent that lost its last child joins the heap
PushIfLeaf(ns, heap, parent) ==
    IF Len(ns[parent].children) = 0 THEN heappush(ns, heap, parent) ELSE heap

\* lines 246-247, the same in evict1
PushIfLeaf1(ns, heap, parent) ==
    IF Len(ns[parent].children) = 0 THEN heappush(ns, heap, parent) ELSE heap

\* the membership test always false
InWaitTensor_never(x, wait_tensor) == FALSE

\* line 240: x in wait_tensor, by identity
InWaitTensor(x, wait_tensor) == x \in wait_tensor

\* ------------------------------------------------------------------ evict
\* the loop of lines 183-200; out = [cb, steps]
RECURSIVE EvictLoop(_, _, _, _, _, _)
EvictLoop(h, root, leaves, num_evicted, num_tokens, out) ==
    IF num_evicted < num_tokens /\ Len(leaves) > 0
    THEN LET p == heappop(h.nodes, leaves)
             x == p.item
             xr == h.nodes[x]
         IN IF x = root
            THEN [h |-> h, num_evicted |-> num_evicted, out |-> out]
            ELSE IF IsLocked(xr)
            THEN EvictLoop(h, root, p.heap, num_evicted, num_tokens, out)
            ELSE LET h1 == _delete_leaf(h, x)
                     pushed == PushIfLeaf(h1.nodes, p.heap, xr.parent)
                 IN EvictLoop(h1, root, pushed,
                              num_evicted + Len(xr.value), num_tokens,
                              [cb |-> Append(out.cb, xr.value),
                               steps |-> Append(out.steps,
                                                Step(h.nodes, root, x))])
    ELSE [h |-> h, num_evicted |-> num_evicted, out |-> out]

\* the leaves as collected, not made a heap
EvictLeaves_unsorted(ns, root) == _collect_leaves(ns, root)

\* the list evict pops from (lines 178-180)
EvictLeaves(ns, root) == heapify(ns, _collect_leaves(ns, root))

evict(h, root, num_tokens) ==
    EvictLoop(h, root, EvictLeaves(h.nodes, root), 0, num_tokens,
              [cb |-> <<>>, steps |-> <<>>])

\* ----------------------------------------------------------------- evict1
\* the loop of lines 232-273; wait_tensor is the reserved set of nodes
RECURSIVE Evict1Loop(_, _, _, _, _, _, _)
Evict1Loop(h, root, leaves, num_evicted, num_tokens, wait_tensor, out) ==
    IF num_evicted < num_tokens /\ Len(leaves) > 0
    THEN LET p == heappop(h.nodes, leaves)
             x == p.item
             xr == h.nodes[x]
         IN IF x = root
            THEN [h |-> h, num_evicted |-> num_evicted, out |-> out]
            ELSE IF IsLocked(xr)
            THEN Evict1Loop(h, root, p.heap, num_evicted, num_tokens,
                            wait_tensor, out)
            ELSE IF ~InWaitTensor(x, wait_tensor)
            THEN LET h1 == _delete_leaf(h, x)
                     pushed == PushIfLeaf1(h1.nodes, p.heap, xr.parent)
                 IN Evict1Loop(h1, root, pushed,
                               num_evicted + Len(xr.value), num_tokens,
                               wait_tensor,
                               [cb |-> Append(out.cb, xr.value),
                                steps |-> Append(out.steps,
                                                 Step(h.nodes, root, x))])
            ELSE Evict1Loop(h, root, p.heap, num_evicted, num_tokens,
                            wait_tensor, out)
    ELSE [h |-> h, num_evicted |-> num_evicted, out |-> out]

\* the list evict1 pops from (line 227; the heapify of line 228 is a comment)
Evict1Leaves(ns, root) == _collect_leaves(ns, root)

evict1(h, root, num_tokens, wait_tensor) ==
    Evict1Loop(h, root, Evict1Leaves(h.nodes, root), 0, num_tokens,
               wait_tensor, [cb |-> <<>>, steps |-> <<>>])

\* ------------------------------------------------------------- total_size
RECURSIVE _total_size_helper(_, _)
RECURSIVE SumSizes(_, _)
SumSizes(ns, cs) ==
    IF cs = <<>> THEN 0
    ELSE _total_size_helper(ns, Head(cs)) + SumSizes(ns, Tail(cs))

_total_size_helper(ns, node) ==
    Len(ns[node].value) + SumSizes(ns, Values(ns[node].children))

total_size == _total_size_helper(nodes, root_node)

\* ------------------------------------------------------------------- pool
\* the pool hands out n of its free slot indices
Alloc(free, n) ==
    LET RECURSIVE Pick(_, _)
        Pick(f, k) ==
            IF k = 0 THEN <<>>
            ELSE LET s == CHOOSE x \in f : \A y \in f : x <= y
                 IN <<s>> \o Pick(f \ {s}, k - 1)
    IN Pick(free, n)

\* token_to_kv_pool.free(slots): is some index released that is free already,
\* or released twice in the batch
FreesTwice(free, slots) ==
    \/ \E i \in 1..Len(slots) : slots[i] \in free
    \/ \E i, j \in 1..Len(slots) : i # j /\ slots[i] = slots[j]

\* -------------------------------------------------------------------- state
NoOp ==
    [op |-> "init", key |-> <<>>, value |-> <<>>, n |-> 0, reserved |-> {},
     ret |-> 0, vals |-> <<>>, node |-> NoNode, cb |-> <<>>, steps |-> <<>>,
     freed |-> <<>>]

IdleReq ==
    [phase |-> "idle", fill_ids |-> <<>>, row |-> <<>>,
     prefix_indices |-> <<>>, last_node |-> NoNode]

\* RadixCache.__init__ and the reset() it calls
Init ==
    /\ nodes = (0 :> [TreeNode(0) EXCEPT !.lock_ref = 1])
    /\ root_node = 0
    /\ evictable_size_ = 0
    /\ disable = FALSE
    /\ clock = 1
    /\ reqs = [r \in ReqIds |-> IdleReq]
    /\ pool_free = Slots
    /\ double_free = FALSE
    /\ last = NoOp

\* RadixCache.__init__ with disable=True
InitDisabled ==
    /\ nodes = (0 :> [TreeNode(0) EXCEPT !.lock_ref = 1])
    /\ root_node = 0
    /\ evictable_size_ = 0
    /\ disable = TRUE
    /\ clock = 1
    /\ reqs = [r \in ReqIds |-> IdleReq]
    /\ pool_free = Slots
    /\ double_free = FALSE
    /\ last = NoOp

Heap == [nodes |-> nodes, ev |-> evictable_size_, clock |-> clock]

\* the outcome of an operation on the cache's memory
SetHeap(h) ==
    /\ nodes' = h.nodes
    /\ evictable_size_' = h.ev
    /\ clock' = h.clock

\* token_to_kv_pool.free(slots), and the evict callback, which frees too
Release(free, slots) ==
    /\ pool_free' = free \cup Range(slots)
    /\ double_free' = (double_free \/ FreesTwice(free, slots))

\* insert(key, value) by a caller that took the slots of value from the pool
\* and hands back those the cache did not store (the first ret of them)
Insert(key, until) ==
    /\ Cardinality(pool_free) >= Len(key)
    /\ LET value == Alloc(pool_free, Len(key))
           r == IF disable THEN [h |-> Heap, ret |-> 0]
                ELSE insert(Heap, root_node, key, value)
           unused == IF disable THEN value ELSE Slice(value, 0, r.ret)
       IN /\ r.h.clock <= until
          /\ SetHeap(r.h)
          /\ Release(pool_free \ Range(value), unused)
          /\ last' = [NoOp EXCEPT !.op = "insert", !.key = key,
                         !.value = value, !.ret = r.ret, !.freed = unused]
    /\ UNCHANGED <<root_node, disable, reqs>>

\* match_prefix(key)
MatchPrefix(key, until) ==
    /\ LET r == IF disable
                THEN [h |-> Heap, value |-> <<>>, last_node |-> root_node]
                ELSE match_prefix(Heap, root_node, key)
       IN /\ r.h.clock <= until
          /\ SetHeap(r.h)
          /\ last' = [NoOp EXCEPT !.op = "match_prefix", !.key = key,
                         !.vals = r.value, !.node = r.last_node]
    /\ UNCHANGED <<root_node, disable, reqs, pool_free, double_free>>

\* The scheduler starts request r on the tokens key: match_prefix, then
\* inc_lock_ref of the node it returned; the pool gives the request fresh
\* slots for the positions the prefix does not cover.
Schedule(r, key, until) ==
    /\ reqs[r].phase = "idle"
    \* requests are interchangeable: the first idle one is taken
    /\ \A q \in ReqIds : q < r => reqs[q].phase = "running"
    /\ Len(key) >= 1
    /\ LET m == IF disable
                THEN [h |-> Heap, value |-> <<>>, last_node |-> root_node]
                ELSE match_prefix(Heap, root_node, key)
           h1 == IF disable THEN m.h
                 ELSE inc_lock_ref(m.h, root_node, m.last_node)
           need == Len(key) - Len(m.value)
           fresh == Alloc(pool_free, need)
       IN /\ Cardinality(pool_free) >= need
          /\ h1.clock <= until
          /\ SetHeap(h1)
          /\ pool_free' = pool_free \ Range(fresh)
          /\ reqs' = [reqs EXCEPT ![r] =
                         [phase |-> "running", fill_ids |-> key,
                          row |-> m.value \o fresh,
                          prefix_indices |-> m.value,
                          last_node |-> m.last_node]]
          /\ last' = [NoOp EXCEPT !.op = "schedule", !.key = key,
                         !.vals = m.value, !.node = m.last_node]
    /\ UNCHANGED <<root_node, disable, double_free>>

\* the slice starting at 0 instead of len(req.prefix_indices)
Redundant_from_zero(kv_indices, prefix_indices, new_prefix_len) ==
    Slice(kv_indices, 0, new_prefix_len)

\* the slots cache_*_req hands back (lines 122 and 142)
Redundant(kv_indices, prefix_indices, new_prefix_len) ==
    Slice(kv_indices, Len(prefix_indices), new_prefix_len)

\* the row after lines 147-149
Rewritten(row, prefix_indices, new_indices) ==
    [i \in 1..Len(row) |->
        IF Len(prefix_indices) < i /\ i <= Len(new_indices)
        THEN new_indices[i] ELSE row[i]]

\* cache_unfinished_req of a disabled cache freeing the slots of the request
CacheUnfinished_frees_when_disabled(r, until) ==
    /\ disable
    /\ reqs[r].phase = "running"
    /\ LET kv_indices == Slice(reqs[r].row, 0, Len(reqs[r].fill_ids))
       IN /\ Release(pool_free, kv_indices)
          /\ last' = [NoOp EXCEPT !.op = "cache_unfinished_req",
                         !.key = reqs[r].fill_ids, !.freed = kv_indices]
    /\ UNCHANGED <<nodes, evictable_size_, clock, reqs, root_node, disable>>

\* cache_unfinished_req(req) with token_ids = req.fill_ids
CacheUnfinished(r, until) ==
    /\ reqs[r].phase = "running"
    /\ IF disable
       THEN /\ last' = [NoOp EXCEPT !.op = "cache_unfinished_req",
                           !.key = reqs[r].fill_ids]
            /\ UNCHANGED <<nodes, evictable_size_, clock, reqs, pool_free,
                           double_free>>
       ELSE LET req == reqs[r]
                token_ids == req.fill_ids
                kv_indices == Slice(req.row, 0, Len(token_ids))
                ins == insert(Heap, root_node, token_ids, kv_indices)
                freed == Redundant(kv_indices, req.prefix_indices, ins.ret)
                m == match_prefix(ins.h, root_node, token_ids)
                asserted == (Len(m.value) = Len(token_ids))
                h2 == dec_lock_ref(m.h, root_node, req.last_node)
                h3 == inc_lock_ref(h2, root_node, m.last_node)
            IN /\ m.h.clock <= until
               /\ Release(pool_free, freed)
               /\ IF asserted
                  THEN /\ SetHeap(h3)
                       /\ reqs' = [reqs EXCEPT
                              ![r].row = Rewritten(req.row, req.prefix_indices,
                                                   m.value),
                              ![r].prefix_indices = m.value,
                              ![r].last_node = m.last_node]
                  ELSE /\ SetHeap(m.h)
                       /\ UNCHANGED reqs
               /\ last' = [NoOp EXCEPT
                              !.op = IF asserted THEN "cache_unfinished_req"
                                     ELSE "AssertionError",
                              !.key = token_ids, !.value = kv_indices,
                              !.ret = ins.ret, !.freed = freed,
                              !.vals = m.value, !.node = m.last_node]
    /\ UNCHANGED <<root_node, disable>>

\* cache_finished_req(req, token_ids) with token_ids = req.fill_ids
CacheFinished(r, until) ==
    /\ reqs[r].phase = "running"
    /\ LET req == reqs[r]
           token_ids == req.fill_ids
           kv_indices == Slice(req.row, 0, Len(token_ids))
       IN IF disable
          THEN /\ Release(pool_free, kv_indices)
               /\ last' = [NoOp EXCEPT !.op = "cache_finished_req",
                              !.key = token_ids, !.value = kv_indices,
                              !.freed = kv_indices]
               /\ UNCHANGED <<nodes, evictable_size_, clock>>
          ELSE LET ins == insert(Heap, root_node, token_ids, kv_indices)
                   freed == Redundant(kv_indices, req.prefix_indices, ins.ret)
                   h1 == dec_lock_ref(ins.h, root_node, req.last_node)
               IN /\ h1.clock <= until
                  /\ Release(pool_free, freed)
                  /\ SetHeap(h1)
                  /\ last' = [NoOp EXCEPT !.op = "cache_finished_req",
                                 !.key = token_ids, !.value = kv_indices,
                                 !.ret = ins.ret, !.freed = freed]
    /\ reqs' = [reqs EXCEPT ![r] = IdleReq]
    /\ UNCHANGED <<root_node, disable>>

\* evict(num_tokens, evict_callback) with a callback that frees to the pool
Evict(num_tokens) ==
    /\ LET e == IF disable
                THEN [h |-> Heap, num_evicted |-> 0,
                      out |-> [cb |-> <<>>, steps |-> <<>>]]
                ELSE evict(Heap, root_node, num_tokens)
       IN /\ SetHeap(Collected(e.h, root_node))
          /\ Release(pool_free, Flatten(e.out.cb))
          /\ last' = [NoOp EXCEPT !.op = "evict", !.n = num_tokens,
                         !.ret = e.num_evicted, !.cb = e.out.cb,
                         !.steps = e.out.steps,
                         !.freed = Flatten(e.out.cb)]
    /\ UNCHANGED <<root_node, disable, reqs>>

\* evict1(num_tokens, evict_callback, wait_tensor)
Evict1(num_tokens, wait_tensor) ==
    /\ LET e == IF disable
                THEN [h |-> Heap, num_evicted |-> 0,
                      out |-> [cb |-> <<>>, steps |-> <<>>]]
                ELSE evict1(Heap, root_node, num_tokens, wait_tensor)
       IN /\ SetHeap(Collected(e.h, root_node))
          /\ Release(pool_free, Flatten(e.out.cb))
          /\ last' = [NoOp EXCEPT !.op = "evict1", !.n = num_tokens,
                         !.reserved = wait_tensor,
                         !.ret = e.num_evicted, !.cb = e.out.cb,
                         !.steps = e.out.steps,
                         !.freed = Flatten(e.out.cb)]
    /\ UNCHANGED <<root_node, disable, reqs>>

\* the nodes from node up to the root, the root left out
PinPath(ns, root, node) ==
    IF node = root THEN {}
    ELSE {node} \cup (Ancestors(ns, node) \ {root})

\* inc_lock_ref(node), called with a node match_prefix returned earlier
IncLockRef(node) ==
    /\ node \in Subtree(nodes, root_node)
    /\ \A a \in PinPath(nodes, root_node, node) : nodes[a].lock_ref < MaxPins
    /\ SetHeap(IF disable THEN Heap ELSE inc_lock_ref(Heap, root_node, node))
    /\ last' = [NoOp EXCEPT !.op = "inc_lock_ref", !.node = node]
    /\ UNCHANGED <<root_node, disable, reqs, pool_free, double_free>>

\* dec_lock_ref(node), called with a node match_prefix returned earlier
DecLockRef(node) ==
    /\ node \in Subtree(nodes, root_node)
    /\ \A a \in PinPath(nodes, root_node, node) : nodes[a].lock_ref + MaxPins > 0
    /\ SetHeap(IF disable THEN Heap ELSE dec_lock_ref(Heap, root_node, node))
    /\ last' = [NoOp EXCEPT !.op = "dec_lock_ref", !.node = node]
    /\ UNCHANGED <<root_node, disable, reqs, pool_free, double_free>>

\* the sets of nodes a caller reserves: nodes match_prefix gave it earlier
ReservedSets ==
    {w \in SUBSET {i \in DOMAIN nodes \ {root_node} : nodes[i].lock_ref = 0} :
        Cardinality(w) <= MaxReserved}

\* reset(), which the caller runs with no request running, clearing the pool
\* with it (the tree's slots do not go through the callback)
Reset ==
    /\ \A r \in ReqIds : reqs[r].phase = "idle"
    /\ clock + 1 <= MaxClock
    /\ nodes' = (0 :> [TreeNode(clock) EXCEPT !.lock_ref = 1])
    /\ root_node' = 0
    /\ evictable_size_' = 0
    /\ clock' = clock + 1
    /\ pool_free' = Slots
    /\ last' = [NoOp EXCEPT !.op = "reset"]
    /\ UNCHANGED <<disable, reqs, double_free>>

\* every operation, called directly or by the scheduler for a request
Next ==
    \/ \E key \in Keys : Insert(key, MaxClock)
    \/ \E key \in Keys : MatchPrefix(key, MaxClock)
    \/ \E r \in ReqIds, key \in Keys : Schedule(r, key, MaxClock)
    \/ \E r \in ReqIds : CacheUnfinished(r, MaxClock)
    \/ \E r \in ReqIds : CacheFinished(r, MaxClock)
    \/ \E n \in EvictAmounts : Evict(n)
    \/ \E n \in EvictAmounts, w \in ReservedSets : Evict1(n, w)
    \/ Reset

Spec == Init /\ [][Next]_vars

\* the same operations on a cache constructed with disable=True
SpecDisabled == InitDisabled /\ [][Next]_vars

\* the scheduler's loop alone: requests through their lifecycles, with the
\* evictions the pool asks for, over a longer run
NextReqs ==
    \/ \E r \in ReqIds, key \in Keys : Schedule(r, key, MaxReqClock)
    \/ \E r \in ReqIds : CacheUnfinished(r, MaxReqClock)
    \/ \E r \in ReqIds : CacheFinished(r, MaxReqClock)
    \/ \E n \in EvictAmounts : Evict(n)
    \/ \E w \in ReservedSets : Evict1(MaxEvict, w)

SpecReqs == Init /\ [][NextReqs]_vars

\* the tree operations alone, called directly, over a longer run
NextTree ==
    \/ \E key \in Keys : Insert(key, MaxTreeClock)
    \/ \E key \in Keys : MatchPrefix(key, MaxTreeClock)
    \/ \E n \in EvictAmounts : Evict(n)

SpecTree == Init /\ [][NextTree]_vars

\* requests on a tree that direct calls filled, without eviction, over a
\* longer run
NextMix ==
    \/ \E key \in Keys : Insert(key, MaxClock)
    \/ \E key \in Keys : MatchPrefix(key, MaxClock)
    \/ \E r \in ReqIds, key \in Keys : Schedule(r, key, MaxMixClock)
    \/ \E r \in ReqIds : CacheUnfinished(r, MaxMixClock)
    \/ \E r \in ReqIds : CacheFinished(r, MaxMixClock)

SpecMix == Init /\ [][NextMix]_vars

\* a caller that pins and unpins the nodes of the tree on its own
NextPins ==
    \/ \E key \in Keys : Insert(key, MaxClock)
    \/ \E key \in Keys : MatchPrefix(key, MaxClock)
    \/ \E node \in DOMAIN nodes : IncLockRef(node)
    \/ \E node \in DOMAIN nodes : DecLockRef(node)

SpecPins == Init /\ [][NextPins]_vars

\* ================================================================ properties
\* ------------------------------------------------- what the tree stores
TreeIds == Subtree(nodes, root_node)

\* the tokens and the slots on the way from the root to node
RECURSIVE PathKey(_, _)
PathKey(ns, node) ==
    IF ns[node].parent = NoNode THEN <<>>
    ELSE PathKey(ns, ns[node].parent) \o ns[node].key

RECURSIVE PathVal(_, _)
PathVal(ns, node) ==
    IF ns[node].parent = NoNode THEN <<>>
    ELSE PathVal(ns, ns[node].parent) \o ns[node].value

CommonPrefixLen(a, b) ==
    CHOOSE m \in 0..Min(Len(a), Len(b)) :
        /\ \A i \in 1..m : a[i] = b[i]
        /\ m = Min(Len(a), Len(b)) \/ a[m + 1] # b[m + 1]

MaxOf(S) == CHOOSE x \in S : \A y \in S : y <= x

\* the length of the longest prefix of k that is a prefix of a stored path
StoredPrefixLen(ns, root, k) ==
    MaxOf({CommonPrefixLen(PathKey(ns, i), k) : i \in Subtree(ns, root)})

\* the slots stored for that prefix, in order
StoredPrefixVals(ns, root, k) ==
    LET m == StoredPrefixLen(ns, root, k)
        i == CHOOSE j \in Subtree(ns, root) :
                 CommonPrefixLen(PathKey(ns, j), k) = m
    IN SubSeq(PathVal(ns, i), 1, m)

RECURSIVE SumLens(_, _)
SumLens(ns, S) ==
    IF S = {} THEN 0
    ELSE LET i == CHOOSE j \in S : TRUE
         IN Len(ns[i].value) + SumLens(ns, S \ {i})

\* the sum of len(value) over the unpinned nodes below the root
UnpinnedSize(ns, root) ==
    SumLens(ns, {i \in Subtree(ns, root) \ {root} : ns[i].lock_ref = 0})

TreeSlots(ns, root) == UNION {Range(ns[i].value) : i \in Subtree(ns, root)}

RECURSIVE SlotCountIn(_, _, _)
SlotCountIn(ns, S, s) ==
    IF S = {} THEN 0
    ELSE LET i == CHOOSE j \in S : TRUE
         IN Count(ns[i].value, s) + SlotCountIn(ns, S \ {i}, s)

\* how often slot s is stored in the tree
SlotCount(ns, root, s) == SlotCountIn(ns, Subtree(ns, root), s)

EvictOps == {"evict", "evict1"}

\* ----------------------------------------------------------------------- C1
\* C1: in every reachable state evictable_size() is the sum of len(value)
\* over the nodes below the root that are reachable from it and have
\* lock_ref = 0.
C1_EvictableSizeIsUnpinnedSum ==
    evictable_size_ = UnpinnedSize(nodes, root_node)

\* an eviction that deleted a node, with a pinned path and evictable nodes left
C1_Witness ==
    /\ last.op \in EvictOps
    /\ last.steps # <<>>
    /\ evictable_size_ > 0
    /\ \E i \in TreeIds \ {root_node} : nodes[i].lock_ref > 0

\* ----------------------------------------------------------------------- C2
\* C2: an evict or evict1 call removes no node that had lock_ref > 0 when it
\* was called, and passes none of that node's slot indices to the callback.
C2_PinnedNodesSurviveEvict ==
    [][last'.op \in EvictOps =>
          \A i \in TreeIds :
              nodes[i].lock_ref > 0 =>
                  /\ i \in Subtree(nodes', root_node')
                  /\ nodes'[i].value = nodes[i].value
                  /\ nodes'[i].parent = nodes[i].parent
                  /\ Range(nodes[i].value) \cap Range(last'.freed) = {}]_vars

\* an eviction that fell short of its target next to a pinned leaf it skipped
C2_Witness ==
    /\ last.op \in EvictOps
    /\ last.steps # <<>>
    /\ last.ret < last.n
    /\ \E i \in TreeIds \ {root_node} :
           nodes[i].lock_ref > 0 /\ Len(nodes[i].children) = 0

\* ----------------------------------------------------------------------- C3
\* C3: after evict1(n, cb, reserved) every node of reserved that was in the
\* tree is still in it with its ancestors, and its value never went to cb.
C3_ReservedNodesSurviveEvict1 ==
    [][last'.op = "evict1" =>
          \A i \in last'.reserved \cap TreeIds :
              /\ i \in Subtree(nodes', root_node')
              /\ nodes'[i].value = nodes[i].value
              /\ Ancestors(nodes, i) \subseteq Subtree(nodes', root_node')
              /\ Ancestors(nodes', i) = Ancestors(nodes, i)
              /\ \A k \in 1..Len(last'.steps) : last'.steps[k].x # i
              /\ Range(nodes[i].value) \cap Range(last'.freed) = {}]_vars

\* evict1 deleted a node, fell short of its target and left an unpinned
\* reserved leaf behind
C3_Witness ==
    /\ last.op = "evict1"
    /\ last.steps # <<>>
    /\ last.ret < last.n
    /\ \E i \in last.reserved \cap TreeIds :
           nodes[i].lock_ref = 0 /\ Len(nodes[i].children) = 0

\* ----------------------------------------------------------------------- C4
\* C4: over the request lifecycles and the evictions no slot index is
\* released twice, and no released slot index is still stored in a node.
C4_SlotsReleasedOnce ==
    /\ ~double_free
    /\ pool_free \cap TreeSlots(nodes, root_node) = {}

\* a finished request gave back the slots the cache already had, while the
\* other request still runs on a cached prefix
C4_Witness ==
    /\ last.op = "cache_finished_req"
    /\ last.freed # <<>>
    /\ \E r \in ReqIds :
           reqs[r].phase = "running" /\ reqs[r].prefix_indices # <<>>

\* ----------------------------------------------------------------------- C5
\* C5: every node evict deletes is, when it is deleted, an unpinned leaf
\* whose last_access_time is at most that of every unpinned leaf then in the
\* tree.
C5_EvictDeletesOldestLeaf ==
    last.op = "evict" =>
        \A k \in 1..Len(last.steps) :
            LET st == last.steps[k]
            IN /\ st.lock_ref = 0
               /\ st.nchildren = 0
               /\ [n |-> st.x, t |-> st.t] \in st.leaves
               /\ \A l \in st.leaves : st.t <= l.t

\* evict deleted a leaf that had a rival and then a node that was no leaf
\* when the call began
C5_Witness ==
    /\ last.op = "evict"
    /\ Len(last.steps) >= 2
    /\ Cardinality(last.steps[1].leaves) >= 2
    /\ \E k \in 2..Len(last.steps) :
           \A l \in last.steps[1].leaves : l.n # last.steps[k].x

\* ----------------------------------------------------------------------- C6
\* C6: evict1 with an empty reserved set deletes the same nodes in the same
\* order as evict does from the same state, and every node evict1 deletes is,
\* when deleted, the oldest of the unpinned leaves that are not reserved.
C6_Evict1FollowsEvictPolicy ==
    [][last'.op = "evict1" =>
          /\ last'.reserved = {} =>
                 last'.steps = evict(Heap, root_node, last'.n).out.steps
          /\ \A k \in 1..Len(last'.steps) :
                 LET st == last'.steps[k]
                 IN \A l \in st.leaves :
                        l.n \notin last'.reserved => st.t <= l.t]_vars

C8_EvictDrainsUnpinnedTree ==
    [][(/\ last'.op = "evict"
        /\ \A i \in TreeIds \ {root_node} : nodes[i].lock_ref = 0
        /\ last'.n >= total_size) =>
          /\ Subtree(nodes', root_node') = {root_node'}
          /\ nodes'[root_node'].children = <<>>
          /\ evictable_size_' = 0
          /\ _total_size_helper(nodes', root_node') = 0
          /\ \A s \in Slots :
                 Count(Flatten(last'.cb), s) = SlotCount(nodes, root_node, s)]_vars

\* evict emptied a tree of several nodes
C8_Witness ==
    /\ last.op = "evict"
    /\ Len(last.steps) >= 2
    /\ last.n >= last.ret
    /\ TreeIds = {root_node}

\* ----------------------------------------------------------------------- C9
\* C9: insert(k, v) returns the length of the longest prefix of k that was a
\* prefix of a stored path, keeps the slots stored for it and stores none of
\* v's for it, makes total_size() grow by len(k) minus that length, and
\* leaves k a stored path whose other slots are v's.
InsertOps == {"insert", "cache_finished_req", "cache_unfinished_req"}

C9_InsertReturnsStoredPrefix ==
    [][last'.op \in InsertOps =>
          LET k == last'.key
              v == last'.value
              m == StoredPrefixLen(nodes, root_node, k)
          IN /\ last'.ret = m
             /\ _total_size_helper(nodes', root_node') = total_size + Len(k) - m
             /\ \E i \in Subtree(nodes', root_node') :
                    /\ PathKey(nodes', i) = k
                    /\ PathVal(nodes', i) =
                           StoredPrefixVals(nodes, root_node, k) \o Drop(v, m)
             /\ Range(SubSeq(v, 1, m)) \cap TreeSlots(nodes', root_node')
                    \subseteq Range(StoredPrefixVals(nodes, root_node, k))]_vars

\* an insert that found part of its key stored and added the rest
C9_Witness ==
    /\ last.op = "insert"
    /\ 0 < last.ret
    /\ last.ret < Len(last.key)
    /\ \E i \in TreeIds : PathKey(nodes, i) = last.key

\* ---------------------------------------------------------------------- C10
\* C10: match_prefix(k) returns the slots stored for the longest prefix of k
\* that is a prefix of a stored path, in order, and a last_node whose edge
\* labels from the root spell that prefix; the root when nothing matches.
MatchOps == {"match_prefix", "schedule"}

C10_MatchPrefixReturnsStoredPrefix ==
    [][last'.op \in MatchOps =>
          LET k == last'.key
              m == StoredPrefixLen(nodes, root_node, k)
          IN /\ Len(last'.vals) = m
             /\ last'.vals = StoredPrefixVals(nodes, root_node, k)
             /\ last'.node \in Subtree(nodes', root_node')
             /\ PathKey(nodes', last'.node) = SubSeq(k, 1, m)
             /\ PathVal(nodes', last'.node) = last'.vals
             /\ m = 0 => last'.node = root_node']_vars

\* a match that ended inside an edge label and split it
C10_Witness ==
    /\ last.op = "match_prefix"
    /\ 0 < Len(last.vals)
    /\ Len(last.vals) < Len(last.key)
    /\ Len(nodes[last.node].children) = 1
    /\ nodes[last.node].last_access_time = clock - 1

\* ---------------------------------------------------------------------- C11
\* C11: with the cache enabled, insert(k, v) immediately followed by
\* match_prefix(k) returns len(k) slot indices and a last_node whose edge
\* labels from the root spell k, so the assertion of cache_unfinished_req,
\* which makes these two calls in a row, never fails.
UnfinishedOps == {"cache_unfinished_req", "AssertionError"}

C11_InsertThenMatchReturnsWholeKey ==
    [][(/\ ~disable
        /\ \/ last'.op \in UnfinishedOps
           \/ /\ last.op = "insert"
              /\ last'.op = "match_prefix"
              /\ last'.key = last.key) =>
          /\ last'.op # "AssertionError"
          /\ Len(last'.vals) = Len(last'.key)
          /\ last'.node \in Subtree(nodes', root_node')
          /\ PathKey(nodes', last'.node) = last'.key]_vars

\* cache_unfinished_req added a leaf below a node that was stored and matched
\* the key through both
C11_Witness ==
    /\ last.op = "cache_unfinished_req"
    /\ 0 < last.ret
    /\ last.ret < Len(last.key)
    /\ last.node # root_node
    /\ nodes[last.node].parent # root_node
    /\ Len(last.vals) = Len(last.key)

\* ---------------------------------------------------------------------- C12
\* C12: insert(k, v') on a tree that has a node whose path spells k returns
\* len(k), leaves total_size() and evictable_size() as they were, creates no
\* node, changes no node's key, value, parent, children or lock_ref, and
\* stores none of the slot indices of v'.
C12_SecondInsertChangesNothing ==
    [][(/\ ~disable
        /\ last'.op = "insert"
        /\ \E i \in TreeIds : PathKey(nodes, i) = last'.key) =>
          /\ last'.ret = Len(last'.key)
          /\ _total_size_helper(nodes', root_node') = total_size
          /\ evictable_size_' = evictable_size_
          /\ Subtree(nodes', root_node') = TreeIds
          /\ \A i \in TreeIds :
                 /\ nodes'[i].key = nodes[i].key
                 /\ nodes'[i].value = nodes[i].value
                 /\ nodes'[i].parent = nodes[i].parent
                 /\ nodes'[i].children = nodes[i].children
                 /\ nodes'[i].lock_ref = nodes[i].lock_ref
          /\ Range(last'.value) \cap TreeSlots(nodes', root_node') = {}
          /\ last'.freed = last'.value]_vars

\* a second insert of a key of full length that is stored on two nodes
C12_Witness ==
    /\ last.op = "insert"
    /\ Len(last.key) = MaxKeyLen
    /\ last.ret = Len(last.key)
    /\ \E i \in TreeIds :
           /\ PathKey(nodes, i) = last.key
           /\ nodes[i].parent # root_node

\* ---------------------------------------------------------------------- C13
\* C13: dec_lock_ref(node) leaves no lock_ref below zero; when a node on the
\* path from node to the root has lock_ref = 0 already, the call changes no
\* lock_ref and not evictable_size().
C13_DecLockRefNeverUnderflows ==
    [][last'.op = "dec_lock_ref" =>
          /\ (\A i \in TreeIds : nodes[i].lock_ref >= 0) =>
                 \A i \in TreeIds : nodes'[i].lock_ref >= 0
          /\ (\E a \in PinPath(nodes, root_node, last'.node) :
                  nodes[a].lock_ref = 0) =>
                 /\ evictable_size_' = evictable_size_
                 /\ \A i \in TreeIds :
                        nodes'[i].lock_ref = nodes[i].lock_ref]_vars

\* ---------------------------------------------------------------------- C14
\* the slots a running request holds in its req_to_token row
ReqSlots(r) == Range(Slice(reqs[r].row, 0, Len(reqs[r].fill_ids)))

\* what C14 says of every operation but cache_unfinished_req
DisabledPassThrough ==
    /\ last'.op \in MatchOps => last'.vals = <<>> /\ last'.node = root_node'
    /\ last'.op = "insert" => last'.ret = 0
    /\ last'.op \in EvictOps => last'.cb = <<>> /\ pool_free' = pool_free
    /\ \A r \in ReqIds :
           (last'.op = "cache_finished_req" /\ reqs'[r] # reqs[r]) =>
               /\ Range(last'.freed) = ReqSlots(r)
               /\ pool_free' = pool_free \cup ReqSlots(r)
    /\ ~double_free'
    /\ DOMAIN nodes' = {root_node'}
    /\ nodes'[root_node'].children = <<>>
    /\ evictable_size_' = 0

\* C14 as stated: on a cache constructed with disable=True every operation
\* is a pass-through: match_prefix returns no slot and the root, insert
\* returns 0, evict and evict1 call no callback, cache_finished_req and
\* cache_unfinished_req both free the request's slots to the pool, and the
\* tree stays the bare root with evictable_size() = 0.
C14_DisabledIsPassThrough_AsStated ==
    [][disable =>
          /\ DisabledPassThrough
          /\ \A r \in ReqIds :
                 (last'.op = "cache_unfinished_req"
                  /\ reqs[r].phase = "running"
                  /\ last'.key = reqs[r].fill_ids) =>
                     ReqSlots(r) \subseteq pool_free']_vars

\* C14, amended: the same, except that cache_unfinished_req frees nothing and
\* leaves the request and the pool as they are; the slots go back to the pool
\* when cache_finished_req runs.
C14_DisabledIsPassThrough ==
    [][disable =>
          /\ DisabledPassThrough
          /\ last'.op = "cache_unfinished_req" =>
                 /\ last'.freed = <<>>
                 /\ pool_free' = pool_free
                 /\ reqs' = reqs
                 /\ \A r \in ReqIds :
                        reqs[r].phase = "running" =>
                            ReqSlots(r) \cap pool_free' = {}]_vars

\* a disabled cache went through cache_unfinished_req while both requests
\* hold slots
C14_Witness ==
    /\ disable
    /\ last.op = "cache_unfinished_req"
    /\ \A r \in ReqIds : reqs[r].phase = "running" /\ ReqSlots(r) # {}

\* ---------------------------------------------------------------------- C15
\* C15: in every reachable state the root has lock_ref = 1 and every node
\* below the root with lock_ref > 0 has a parent with lock_ref > 0.
C15_PinIsPathSticky ==
    /\ nodes[root_node].lock_ref = 1
    /\ \A i \in TreeIds \ {root_node} :
           nodes[i].lock_ref > 0 => nodes[nodes[i].parent].lock_ref > 0

\* a pinned node below a pinned node that is not the root, which also has an
\* unpinned leaf that a request's insert put below it
C15_Witness ==
    /\ last.op \in {"cache_finished_req", "cache_unfinished_req"}
    /\ last.ret < Len(last.key)
    /\ \E u \in TreeIds \ {root_node} :
           /\ nodes[u].lock_ref > 0
           /\ \E i \in TreeIds : nodes[i].parent = u /\ nodes[i].lock_ref > 0
           /\ \E i \in TreeIds : nodes[i].parent = u /\ nodes[i].lock_ref = 0

\* ---------------------------------------------------------------------- C16
\* the running requests whose last_node is node or a node below it
PinnedBy(node) ==
    {r \in ReqIds :
        /\ reqs[r].phase = "running"
        /\ reqs[r].last_node \in TreeIds
        /\ \/ reqs[r].last_node = node
           \/ node \in Ancestors(nodes, reqs[r].last_node)}

\* C16: in every reachable state the last_node of every running request is in
\* the tree and the lock_ref of every node below the root is the number of
\* running requests whose last_node is that node or a node below it; after
\* cache_unfinished_req the request's last_node spells its token_ids and its
\* prefix_indices cover them; when no request runs every lock_ref is 0.
C16_LockRefCountsRequests ==
    /\ \A r \in ReqIds :
           reqs[r].phase = "running" => reqs[r].last_node \in TreeIds
    /\ \A i \in TreeIds \ {root_node} :
           nodes[i].lock_ref = Cardinality(PinnedBy(i))
    /\ last.op = "cache_unfinished_req" =>
           \E r \in ReqIds :
               /\ reqs[r].phase = "running"
               /\ reqs[r].last_node = last.node
               /\ reqs[r].fill_ids = last.key
               /\ PathKey(nodes, reqs[r].last_node) = reqs[r].fill_ids
               /\ Len(reqs[r].prefix_indices) = Len(reqs[r].fill_ids)
    /\ (\A r \in ReqIds : reqs[r].phase = "idle") =>
           \A i \in TreeIds \ {root_node} : nodes[i].lock_ref = 0

\* cache_unfinished_req swapped the pin of a request whose node lies above
\* the node of the other request
C16_Witness ==
    /\ last.op = "cache_unfinished_req"
    /\ last.node # root_node
    /\ nodes[last.node].lock_ref = NumReqs
    /\ \E i \in TreeIds :
           nodes[i].parent = last.node /\ nodes[i].lock_ref = 1

\* ---------------------------------------------------------------------- C17
\* C17: in every reachable state every node n below the root has
\* len(n.key) = len(n.value) >= 1 and is the child its parent keeps under
\* n.key[0]; every entry of a children dictionary is keyed by the first token
\* of the child it holds and that child's parent is the node, so no two
\* children of a node begin with the same token; the root's key and value
\* are empty.
C17_NodesAreWellFormed ==
    /\ nodes[root_node].key = <<>>
    /\ nodes[root_node].value = <<>>
    /\ \A i \in TreeIds \ {root_node} :
           /\ Len(nodes[i].key) = Len(nodes[i].value)
           /\ Len(nodes[i].key) >= 1
           /\ nodes[i].parent \in TreeIds
           /\ HasKey(nodes[nodes[i].parent].children, nodes[i].key[1])
           /\ Get(nodes[nodes[i].parent].children, nodes[i].key[1]) = i
    /\ \A i \in TreeIds :
           LET d == nodes[i].children
           IN \A a, b \in 1..Len(d) :
                  /\ nodes[d[a].n].parent = i
                  /\ nodes[d[a].n].key # <<>>
                  /\ d[a].k = nodes[d[a].n].key[1]
                  /\ (a # b => d[a].k # d[b].k)
                  /\ (a # b => nodes[d[a].n].key[1] # nodes[d[b].n].key[1])

\* an eviction left a node that a split made with a child below it
C17_Witness ==
    /\ last.op \in EvictOps
    /\ last.steps # <<>>
    /\ \E u \in TreeIds \ {root_node} : Len(nodes[u].children) >= 1

\* ---------------------------------------------------------------------- C18
\* the token paths of the leaves with the slots stored along them
StoredPaths(ns, root) ==
    {<<PathKey(ns, i), PathVal(ns, i)>> :
        i \in {j \in Subtree(ns, root) : ns[j].children = <<>>}}

\* C18: match_prefix(k) changes the lock_ref of no node; a node it creates by
\* a split has one child, a node that was there, and that child's lock_ref;
\* evictable_size() and total_size() stay as they were, and so do the stored
\* token paths with their slots and what is stored for every prefix.
C18_MatchPrefixIsARead ==
    [][(~disable /\ last'.op = "match_prefix") =>
          /\ TreeIds \subseteq Subtree(nodes', root_node')
          /\ \A i \in TreeIds : nodes'[i].lock_ref = nodes[i].lock_ref
          /\ \A i \in Subtree(nodes', root_node') \ TreeIds :
                 /\ Len(nodes'[i].children) = 1
                 /\ nodes'[i].children[1].n \in TreeIds
                 /\ nodes'[i].lock_ref =
                        nodes[nodes'[i].children[1].n].lock_ref
          /\ evictable_size_' = evictable_size_
          /\ _total_size_helper(nodes', root_node') = total_size
          /\ StoredPaths(nodes', root_node') = StoredPaths(nodes, root_node)
          /\ \A k \in Keys :
                 StoredPrefixVals(nodes', root_node', k) =
                     StoredPrefixVals(nodes, root_node, k)
          /\ UNCHANGED <<pool_free, reqs>>]_vars

\* match_prefix split a node that a request has pinned
C18_Witness ==
    /\ last.op = "match_prefix"
    /\ last.node # root_node
    /\ Len(nodes[last.node].children) = 1
    /\ nodes[last.node].last_access_time = clock - 1
    /\ nodes[last.node].lock_ref > 0

\* ---------------------------------------------------------------------- C19
\* the nodes from the root down to node, both included
PathTo(ns, node) == {node} \cup Ancestors(ns, node)

\* C19: after match_prefix(k) or insert(k, v) that began at time t, every
\* node from the root to the node that spells the matched prefix of k, or k
\* itself after insert, has last_access_time >= t; also the last node of the
\* path when insert finds all of k stored.
C19_TraversalRefreshesPath ==
    [][~disable =>
          /\ last'.op = "match_prefix" =>
                 \A j \in PathTo(nodes', last'.node) :
                     nodes'[j].last_access_time >= clock
          /\ last'.op = "insert" =>
                 \A i \in Subtree(nodes', root_node') :
                     PathKey(nodes', i) = last'.key =>
                         \A j \in PathTo(nodes', i) :
                             nodes'[j].last_access_time >= clock]_vars

\* ---------------------------------------------------------------------- C20
\* the nodes below the root that have exactly one child
SingleChildNodes(ns, root) ==
    {i \in Subtree(ns, root) \ {root} : Len(ns[i].children) = 1}

\* k is stored, and ends inside the edge label of a node
EndsInsideEdge(ns, root, k) ==
    /\ StoredPrefixLen(ns, root, k) = Len(k)
    /\ \A i \in Subtree(ns, root) : PathKey(ns, i) # k

\* the leaves below the root whose path k goes through and beyond
LeavesExtendedBy(ns, root, k) ==
    {l \in Subtree(ns, root) \ {root} :
        /\ ns[l].children = <<>>
        /\ Len(PathKey(ns, l)) < Len(k)
        /\ PathKey(ns, l) = SubSeq(k, 1, Len(PathKey(ns, l)))}

\* C20 as stated: from a tree in which no node below the root has exactly
\* one child, insert(k, v) leads to such a tree again, for every k.
C20_InsertMakesNoSingleChild_AsStated ==
    [][(/\ ~disable
        /\ last'.op = "insert"
        /\ SingleChildNodes(nodes, root_node) = {}) =>
          SingleChildNodes(nodes', root_node') = {}]_vars

\* C20, amended: from such a tree insert(k, v) leads to such a tree again,
\* but for two cases. When k is stored and ends inside an edge label, the
\* split leaves one node with exactly one child, the new node that spells k.
\* When k goes through a leaf and beyond, that leaf gets the new leaf as its
\* only child.
C20_InsertMakesNoSingleChild ==
    [][(/\ ~disable
        /\ last'.op = "insert"
        /\ SingleChildNodes(nodes, root_node) = {}) =>
          IF EndsInsideEdge(nodes, root_node, last'.key)
          THEN /\ SingleChildNodes(nodes', root_node') =
                      {i \in Subtree(nodes', root_node') :
                          PathKey(nodes', i) = last'.key}
               /\ Cardinality(SingleChildNodes(nodes', root_node')) = 1
               /\ SingleChildNodes(nodes', root_node') \cap TreeIds = {}
          ELSE SingleChildNodes(nodes', root_node') =
                   LeavesExtendedBy(nodes, root_node, last'.key)]_vars

\* insert split an edge where its key leaves it and hung the new leaf beside
\* the rest of the edge
C20_Witness ==
    /\ last.op = "insert"
    /\ 0 < last.ret
    /\ last.ret < Len(last.key)
    /\ SingleChildNodes(nodes, root_node) = {}
    /\ \E u \in TreeIds \ {root_node} :
           /\ Len(nodes[u].children) = 2
           /\ nodes[u].last_access_time >= clock - 2

====
